---------------------------- MODULE Spec2Model ----------------------------
(***************************************************************************)
(* A model of the indexed store of static-suite-data-server               *)
(* (src/lib/store/store.js), of the file cache it reads through            *)
(* (src/unnamed/part_000), and of the module registry and the include      *)
(* parser (src/unnamed/part_001).                                          *)
(*                                                                         *)
(* Representation.                                                         *)
(*  - A file path is the sequence of its '/'-separated segments, the       *)
(*    result of file.split('/'); the empty string splits into <<"">>.      *)
(*  - store.data and store.stage are trees of JavaScript objects.  A tree  *)
(*    is a function from key paths (the property names from the root down) *)
(*    to cells; <<>> is the root object.  A cell is a plain object         *)
(*    ("obj": a directory node, an Index object, a variants mapping), an   *)
(*    array of Documents ("arr"), a parsed Document ("json", with its      *)
(*    __FILENAME__ in fn) or a raw string ("raw").  A key path outside the *)
(*    domain reads as undefined.                                           *)
(*  - Tree objects are never aliased (every directory is a fresh           *)
(*    deepClone), so a reference to one is its key path.  A Document       *)
(*    object is shared by the tree leaf, the Index arrays and the cache;   *)
(*    the only field the store writes on it is __FILENAME__, always the    *)
(*    file it was added under (one dataDir), so it is kept by value.       *)
(*                                                                         *)
(* Assumptions on the inputs.                                              *)
(*  - add is called with paths of the ingestion source: directory names    *)
(*    and then a file name, the two sets being disjoint (Files), or with   *)
(*    a path holding the reserved segment, or with the empty path.         *)
(*  - remove is called with any of these and with paths that lead into an  *)
(*    Index (RemoveFiles).                                                 *)
(*  - A Document body has no property named like a path segment.           *)
(*  - The hooks of the post-processor do not change the store themselves:  *)
(*    processFile returns contents, storeAdd and storeRemove return or     *)
(*    throw.  hookCalls keeps each call with the tree as the hook found it. *)
(*  - Cache namespaces and keys are not names of Object.prototype, and no  *)
(*    cached value is undefined.                                           *)
(*  - A module file on disk is one of its builds, a file whose exports     *)
(*    are falsy, or missing.  require follows Node: a module in            *)
(*    require.cache is returned without reading the file, and a path       *)
(*    resolved once resolves again (Module._pathCache).                    *)
(*  - The strings the include parser takes apart are sequences of tokens:  *)
(*    an include path is <<"data", ".", "entity", "Include">>, a query     *)
(*    string is <<"rel", "?", "tag", "=", "foo", ...>>.  Every reference   *)
(*    of metadata.includes names a string value of the Document, below     *)
(*    the root, and a query string has at most one '?'.                    *)
(***************************************************************************)
EXTENDS Integers, Sequences, FiniteSets, TLC

\* Bound of the model: calls made on the store in one run.
MaxOps == 3
\* Calls made on the module registry and changes of the module files on
\* disk in one run.
MaxCalls == 5

\* src/lib/store/store.js:8-10
JSON_ITEMS == "_json"
MAIN == "main"
VARIANTS == "variants"

Undefined == [k |-> "undefined"]
Null == [k |-> "null"]
Obj == [k |-> "obj"]
Arr(items) == [k |-> "arr", items |-> items]
Raw(text) == [k |-> "raw", body |-> text]
Json(body, fn) == [k |-> "json", body |-> body, fn |-> fn]
NoFilename == <<"?">>

\* The texts the ingestion source supplies for a file: two JSON texts and
\* one that is not JSON.
AllTexts == {"{v:1}", "{v:2}", "plain"}
\* A JSON text and one that is not JSON.
Texts == {"{v:1}", "plain"}

\* The files of the ingestion source: a main Document at the root, a main
\* Document and a variant in the directory en, a variant at the root.
Files == {<<"a.json">>, <<"en", "a.json">>, <<"en", "a--t.json">>, <<"a--t.json">>}
\* A file in a directory that no file of the source is in.
MissingDirFiles == {<<"fr", "a.json">>}
\* Paths that hold the reserved segment, first, in the middle and last.
ReservedAddFiles == {<<JSON_ITEMS, "a.json">>, <<"en", JSON_ITEMS, "a.json">>,
                     <<"en", JSON_ITEMS>>}
\* Reserved paths that lead into an Index.
ReservedRemoveFiles == {<<JSON_ITEMS>>, <<JSON_ITEMS, MAIN>>, <<JSON_ITEMS, VARIANTS>>,
                        <<"en", JSON_ITEMS, MAIN>>}
EmptyFile == <<"">>

----------------------------------------------------------------------------
\* JavaScript objects as trees of cells.

Max(a, b) == IF a > b THEN a ELSE b
Min(a, b) == IF a < b THEN a ELSE b

HasPrefix(q, p) == Len(p) <= Len(q) /\ SubSeq(q, 1, Len(p)) = p

\* Every cell of the model is truthy (objects, arrays, non-empty strings), so
\* a value is falsy exactly when the property is not there.
Truthy(T, p) == p \in DOMAIN T

\* Mutant of Delete: the property stays.
Delete_kept(T, p) == T

\* delete obj[key], p being the path of obj[key]: the property and all under it.
Delete(T, p) == [q \in {x \in DOMAIN T : ~HasPrefix(x, p)} |-> T[q]]

\* obj[key] = value, p being the path of obj[key] and sub the tree of value.
\* An assignment to a property of a string is ignored (sloppy mode).
Assign(T, p, sub) ==
  LET parent == SubSeq(p, 1, Len(p) - 1)
      kept == {x \in DOMAIN T : ~HasPrefix(x, p)}
  IN IF parent \in DOMAIN T /\ T[parent].k = "obj"
     THEN [q \in kept \cup {p \o r : r \in DOMAIN sub} |->
             IF HasPrefix(q, p) THEN sub[SubSeq(q, Len(p) + 1, Len(q))] ELSE T[q]]
     ELSE T

\* The value at p as a tree of its own.
SubTree(T, p) ==
  [r \in {SubSeq(q, Len(p) + 1, Len(q)) : q \in {x \in DOMAIN T : HasPrefix(x, p)}} |->
     T[p \o r]]

Leaf(cell) == (<<>> :> cell)
UndefinedValue == Leaf(Undefined)

\* src/lib/store/store.js:84-89; deepClone (line 12) makes each use a fresh
\* object, which a tree value is.
storeDataSkeleton ==
  (<<>> :> Obj) @@ (<<JSON_ITEMS>> :> Obj) @@
  (<<JSON_ITEMS, MAIN>> :> Arr(<<>>)) @@ (<<JSON_ITEMS, VARIANTS>> :> Obj)

\* fsUtils.getVariantName: the part of the file name after the variant
\* separator "--" (extension dropped), null when the name has no separator.
getVariantName(file) ==
  IF file[Len(file)] = "a--t.json" THEN "t" ELSE "null"

\* Array.prototype.findIndex(item => item?.__FILENAME__ === file), 0-based,
\* -1 when no item matches.
findIndex(items, file) ==
  LET hits == {i \in 1..Len(items) : items[i].fn = file}
  IN IF hits = {} THEN -1 ELSE (CHOOSE i \in hits : \A j \in hits : i <= j) - 1

\* Array.prototype.splice(start, 1): a negative start counts from the end.
splice(items, start) ==
  LET n == Len(items)
      s == IF start < 0 THEN Max(n + start, 0) ELSE Min(start, n)
  IN SubSeq(items, 1, s) \o SubSeq(items, s + 2, n)

Push(T, p, item) == [T EXCEPT ![p] = Arr(Append(@.items, item))]

\* addFileToJsonItems(dataLeaf, file, jsonFileContents): json is the parsed
\* Document with __FILENAME__ already set (line 20), or Null.
addFileToJsonItems(T, leaf, file, json) ==
  LET variantName == getVariantName(file)
      idx == Append(leaf, JSON_ITEMS)
      vs == Append(idx, VARIANTS)
      vp == Append(vs, variantName)
      mp == Append(idx, MAIN)
  IN IF json = Null THEN [T |-> T, err |-> "none"]
     ELSE IF variantName # "null"
     THEN IF ~Truthy(T, idx) \/ ~Truthy(T, vs)
          THEN [T |-> T, err |-> "TypeError"]
          ELSE LET T1 == IF ~Truthy(T, vp) THEN Assign(T, vp, Leaf(Arr(<<>>))) ELSE T
               IN [T |-> Push(T1, vp, json), err |-> "none"]
     ELSE IF ~Truthy(T, idx) \/ ~Truthy(T, mp)
          THEN [T |-> T, err |-> "TypeError"]
          ELSE [T |-> Push(T, mp, json), err |-> "none"]

\* Mutant of deleteEmptyGroup: an empty group is left in the mapping.
deleteEmptyGroup_left(T, vp) == T

\* Lines 53-56: delete the variant group at vp if it is empty.
deleteEmptyGroup(T, vp) ==
  IF Len(T[vp].items) = 0 THEN Delete(T, vp) ELSE T

\* removeFileFromJsonItems(dataLeaf, file); leaf is the path of dataLeaf,
\* which may be undefined (not in the tree).
removeFileFromJsonItems(T, leaf, file) ==
  LET variantName == getVariantName(file)
      vp == leaf \o <<JSON_ITEMS, VARIANTS, variantName>>
      mp == leaf \o <<JSON_ITEMS, MAIN>>
  IN IF variantName # "null"
     THEN IF Truthy(T, vp)
          THEN LET items == splice(T[vp].items, findIndex(T[vp].items, file))
               IN deleteEmptyGroup([T EXCEPT ![vp] = Arr(items)], vp)
          ELSE T
     ELSE IF Truthy(T, mp)
          THEN [T EXCEPT ![mp] = Arr(splice(T[mp].items, findIndex(T[mp].items, file)))]
          ELSE T


----------------------------------------------------------------------------
\* The cache (src/unnamed/part_000): bin -> key -> value.  A bin or a key that
\* was never set is not in the domain.

cache_get(C, bin, key) ==
  IF bin \in DOMAIN C /\ key \in DOMAIN C[bin] THEN C[bin][key] ELSE Undefined

cache_set(C, bin, key, value) ==
  LET C1 == IF bin \in DOMAIN C THEN C ELSE C @@ (bin :> <<>>)
  IN [C1 EXCEPT ![bin] = (key :> value) @@ @]

\* remove(bin, key): delete data[bin][key] when the bin is there.
cache_remove(C, bin, key) ==
  IF bin \in DOMAIN C
  THEN [C EXCEPT ![bin] = [k \in (DOMAIN C[bin]) \ {key} |-> C[bin][k]]]
  ELSE C

\* countItems(bin): Object.keys(data[bin]).length, 0 when the bin is not there.
cache_countItems(C, bin) ==
  IF bin \in DOMAIN C THEN Cardinality(DOMAIN C[bin]) ELSE 0

\* Mutant of cache_reset: every bin is emptied.
cache_reset_all(C, bin) == [b \in DOMAIN C \cup {bin} |-> <<>>]

\* reset(bin): data[bin] = {}.
cache_reset(C, bin) == [b \in DOMAIN C \cup {bin} |-> IF b = bin THEN <<>> ELSE C[b]]

\* fsUtils.getFileContents(filePath): the raw text of the file and, when it
\* parses as JSON, the parsed structure (else null).  src is what the
\* ingestion source holds for the file when it is read.
parseJsonString(text) ==
  IF text = "{v:1}" THEN Json(1, NoFilename)
  ELSE IF text = "{v:2}" THEN Json(2, NoFilename)
  ELSE Null

getFileContents(src) == [raw |-> Raw(src), json |-> parseJsonString(src)]

----------------------------------------------------------------------------
\* The store (src/lib/store/store.js).  A store state S is the record of
\* store.data, store.stage, the cache, and what the call in progress has
\* raised (err) and logged (warned).

\* Mutant of meetsPathRequirements: only the first segment is looked at.
meetsPathRequirements_first(pathParts) == pathParts[1] # JSON_ITEMS

\* meetsPathRequirements(pathParts): whether the path is free of the reserved
\* name; logger.warn is called when it is not.
meetsPathRequirements(pathParts) ==
  \A i \in 1..Len(pathParts) : pathParts[i] # JSON_ITEMS

\* What the hooks of the post-processor do in one call, when it exposes them:
\* processFile returns the contents pf; storeAdd and storeRemove return or throw.
HookPlays(pp) ==
  [pf : IF pp # Null /\ pp.processFile THEN AllTexts ELSE {"plain"},
   sa : IF pp # Null /\ pp.storeAdd THEN {"ok", "throw"} ELSE {"ok"},
   sr : IF pp # Null /\ pp.storeRemove THEN {"ok", "throw"} ELSE {"ok"}]

\* Mutant of leafValue: the raw text is stored also for a parsed file.
leafValue_raw(json, raw) == raw

\* Line 216: jsonFileContents || rawFileContents.
leafValue(json, raw) == IF json # Null THEN json ELSE raw

\* Line 208: the tree the call works on, and the store with that tree
\* as the call left it (the tree is changed in place).
rootLeaf(S, options) == IF options.useStage THEN S.stage ELSE S.data
\* Mutant of setRootLeaf: the changed tree always becomes the live tree.
setRootLeaf_live(S, options, T) == [S EXCEPT !.data = T]
setRootLeaf(S, options, T) ==
  IF options.useStage THEN [S EXCEPT !.stage = T] ELSE [S EXCEPT !.data = T]

\* The pathParts.forEach of add (lines 211-237) from part i on; leaf is the
\* path of the current leaf in the tree T (rootLeaf is <<>>).
RECURSIVE addWalk(_, _, _, _, _, _, _)
addWalk(T, leaf, pathParts, i, file, json, raw) ==
  IF i > Len(pathParts) THEN [T |-> T, err |-> "none"]
  ELSE LET part == pathParts[i]
           p == Append(leaf, part)
       IN IF i = Len(pathParts)
          THEN addFileToJsonItems(Assign(T, p, Leaf(leafValue(json, raw))), <<>>, file, json)
          ELSE LET T1 == IF ~Truthy(T, p) THEN Assign(T, p, storeDataSkeleton) ELSE T
                   r == addFileToJsonItems(T1, p, file, json)
               IN IF r.err # "none" THEN r
                  ELSE addWalk(r.T, IF Truthy(r.T, p) THEN p ELSE leaf,
                               pathParts, i + 1, file, json, raw)

\* Mutant of mustRead: the file is read on every call.
mustRead_always(options, cached) == TRUE

\* Line 188: whether add reads the file from the ingestion source, cached
\* being what the cache holds for it.
mustRead(options, cached) == ~options.useCache \/ cached = Undefined

\* A call of a hook of the post-processor: the tree of the call as the hook
\* found it, the contents it was given (storeAdd) or returned (processFile),
\* and whether it returned or threw.
HookCall(hook, tree, contents, outcome) ==
  [hook |-> hook, tree |-> tree, contents |-> contents, outcome |-> outcome]
NoContents == [raw |-> Null, json |-> Null]

\* Mutant of processFile: what the hook returns is dropped.
processFile_ignored(pp, hk, cached) == cached

\* Lines 198-206: the contents add goes on with, cached being the contents
\* read from the cache; processFile returns the contents of the text hk.pf.
processFile(pp, hk, cached) ==
  IF pp # Null /\ pp.processFile THEN getFileContents(hk.pf) ELSE cached

\* store.add(dataDir, file, options) (lines 174-251), with one dataDir, so
\* that filePath is file.
add(S, pp, file, options, src, hk) ==
  IF file = EmptyFile THEN S
  ELSE IF ~meetsPathRequirements(file) THEN [S EXCEPT !.warned = TRUE]
  ELSE
    LET filePath == file
        read == mustRead(options, cache_get(S.cache, "file", filePath))
        C1 == IF read THEN cache_set(S.cache, "file", filePath, getFileContents(src))
              ELSE S.cache
        cached == cache_get(C1, "file", filePath)
        processed == pp # Null /\ pp.processFile
        got == processFile(pp, hk, cached)
        h1 == IF processed
              THEN Append(S.hooks, HookCall("processFile", rootLeaf(S, options),
                                            getFileContents(hk.pf), "ok"))
              ELSE S.hooks
        \* json.__FILENAME__ = file (line 20) is the first statement that
        \* touches the Document in every addFileToJsonItems call.
        json == IF got.json # Null THEN [got.json EXCEPT !.fn = file] ELSE Null
        r == addWalk(rootLeaf(S, options), <<>>, file, 1, file, json, got.raw)
        \* the cached object is the one the store wrote __FILENAME__ on
        C2 == IF ~processed /\ json # Null
              THEN cache_set(C1, "file", filePath, [cached EXCEPT !.json = json])
              ELSE C1
        S1 == [setRootLeaf(S, options, r.T) EXCEPT !.cache = C2, !.read = read,
                                                    !.hooks = h1]
        S2 == [S1 EXCEPT !.hooks = Append(h1, HookCall("storeAdd", r.T,
                                                       [raw |-> got.raw, json |-> json],
                                                       hk.sa))]
    IN IF r.err # "none" THEN [S1 EXCEPT !.err = r.err]
       ELSE IF pp # Null /\ pp.storeAdd
       THEN IF hk.sa = "throw" THEN [S2 EXCEPT !.err = "HookError"] ELSE S2
       ELSE S1

\* The pathParts.forEach of remove (lines 267-282) from part i on.
RECURSIVE removeWalk(_, _, _, _, _)
removeWalk(T, leaf, pathParts, i, file) ==
  IF i > Len(pathParts) THEN T
  ELSE LET part == pathParts[i]
           p == Append(leaf, part)
           T1 == IF i = Len(pathParts)
                 THEN removeFileFromJsonItems(Delete(T, p), <<>>, file)
                 ELSE removeFileFromJsonItems(T, p, file)
       IN removeWalk(T1, IF Truthy(T1, p) THEN p ELSE leaf, pathParts, i + 1, file)

\* store.remove(file) (lines 262-291).
remove(S, pp, file, hk) ==
  LET S1 == [S EXCEPT !.data = removeWalk(S.data, <<>>, file, 1, file)]
      S2 == [S1 EXCEPT !.hooks = Append(S.hooks, HookCall("storeRemove", S1.data,
                                                          NoContents, hk.sr))]
  IN IF pp # Null /\ pp.storeRemove
     THEN IF hk.sr = "throw" THEN [S2 EXCEPT !.err = "HookError"] ELSE S2
     ELSE S1

\* store.update(dataDir, file) (lines 304-308).
update(S, pp, file, src, hk) ==
  LET S1 == remove(S, pp, file, hk)
  IN IF S1.err # "none" THEN S1
     ELSE add(S1, pp, file, [useStage |-> FALSE, useCache |-> FALSE], src, hk)

\* store.get(file) (lines 317-320): the reduce over the path parts, prev being
\* the path of the value reached so far or undefined.
RECURSIVE getWalk(_, _, _, _)
getWalk(T, prev, pathParts, i) ==
  IF i > Len(pathParts)
  THEN IF Truthy(T, prev) THEN SubTree(T, prev) ELSE UndefinedValue
  ELSE IF Truthy(T, prev) THEN getWalk(T, Append(prev, pathParts[i]), pathParts, i + 1)
       ELSE UndefinedValue

get(T, file) == getWalk(T, <<>>, file, 1)

\* Mutant of promoteStage: the staging tree is not reset.
promoteStage_kept(S) == [S EXCEPT !.data = S.stage]

\* store.promoteStage() (lines 327-331).
promoteStage(S) == [S EXCEPT !.data = S.stage, !.stage = storeDataSkeleton]

----------------------------------------------------------------------------
\* The module registry (src/unnamed/part_001, lines 1-47).  A registry state
\* R is the record of
\*   modules       the registry `modules`: path -> handle (line 8),
\*   requireCache  require.cache of the process: path -> exports,
\*   pathCache     the paths the process has resolved so far,
\*   disk          the build of each module file now on disk,
\*   evals         module evaluations made so far,
\* and of what the call in progress returned (ret), raised (err), which
\* paths it called load on (loaded), the paths whose load raised (failed),
\* and the usable handles a failed load found in the registry (discarded).
\* A handle is the exports object of one evaluation of one build.  A missing
\* property reads as Undefined; a module that exports no usable value
\* exports Null.

QueryModules == {"q.js"}        \* the modules under config.queryDir
PostProcessorPath == "pp.js"    \* config.postProcessor
Paths == QueryModules \cup {PostProcessorPath}
\* What the file of a module can be on disk: one of two builds, a build with
\* no usable export, or not there.
Builds == {"b1", "b2"}
DiskStates == Builds \cup {"falsy", "missing"}

Handle(build, eval) == [k |-> "module", build |-> build, eval |-> eval]
Usable(h) == h # Undefined /\ h # Null

\* require.resolve(path): a path resolves when its file is on disk or the
\* process resolved it before.
resolves(R, path) == path \in R.pathCache \/ R.disk[path] # "missing"

\* delete require.cache[require.resolve(modulePath)] (lines 18, 24, 41),
\* the path resolving.
invalidate(R, path) ==
  [R EXCEPT !.requireCache[path] = Undefined, !.pathCache = @ \cup {path}]

\* require(modulePath) (line 31): the exports cached for the path when there
\* are any, else the file on disk is evaluated and its exports are cached;
\* it throws when there is no file.
require(R, path) ==
  IF R.requireCache[path] # Undefined
  THEN [R EXCEPT !.ret = R.requireCache[path]]
  ELSE IF R.disk[path] = "missing"
  THEN [R EXCEPT !.err = "LoadError", !.ret = Undefined]
  ELSE LET exports == IF R.disk[path] = "falsy" THEN Null
                      ELSE Handle(R.disk[path], R.evals + 1)
       IN [R EXCEPT !.requireCache[path] = exports,
                    !.pathCache = @ \cup {path},
                    !.evals = @ + 1,
                    !.ret = exports]

\* Mutant of moduleHandler_load: the previous handle is put back when the
\* load fails.
moduleHandler_load_stale(R, path) ==
  LET R1 == require([R EXCEPT !.loaded = @ \cup {path}], path)
  IN IF R1.err = "none" /\ Usable(R1.ret)
     THEN [R1 EXCEPT !.modules[path] = R1.ret]
     ELSE [R1 EXCEPT !.err = "LoadError", !.ret = Undefined, !.failed = @ \cup {path}]

\* moduleHandler.load(modulePath) (lines 29-37).
moduleHandler_load(R, path) ==
  LET R0 == [R EXCEPT !.modules[path] = Undefined, !.loaded = @ \cup {path}]
      R1 == require(R0, path)
      R2 == [R1 EXCEPT !.modules[path] = R1.ret]
      failed(Rf) == [Rf EXCEPT !.err = "LoadError", !.ret = Undefined,
                               !.failed = @ \cup {path},
                               !.discarded = IF Usable(R.modules[path])
                                             THEN @ \cup {<<path, R.modules[path]>>}
                                             ELSE @]
  IN IF R1.err # "none" THEN failed(R1)
     ELSE IF ~Usable(R2.modules[path]) THEN failed(R2)
     ELSE R2

\* moduleHandler.remove(modulePath) (lines 39-43).
moduleHandler_remove(R, path) ==
  IF ~resolves(R, path) THEN [R EXCEPT !.err = "LoadError"]
  ELSE [invalidate(R, path) EXCEPT !.modules[path] = Undefined]

\* Mutant of moduleHandler_get: the module is loaded on every call.
moduleHandler_get_load(R, path) == moduleHandler_load(R, path)

\* moduleHandler.get(modulePath) (lines 45-46).
moduleHandler_get(R, path) ==
  IF Usable(R.modules[path]) THEN [R EXCEPT !.ret = R.modules[path]]
  ELSE moduleHandler_load(R, path)

\* Lines 18-19 and 24-25: invalidate and load one module.
reload(R, path) ==
  IF R.err # "none" THEN R
  ELSE IF ~resolves(R, path) THEN [R EXCEPT !.err = "LoadError"]
  ELSE moduleHandler_load(invalidate(R, path), path)

\* moduleHandler.init() (lines 11-27) with config.queryDir and
\* config.postProcessor set: the query modules found on disk, then the
\* post-processor.
RECURSIVE reloadAll(_, _)
reloadAll(R, paths) ==
  IF paths = {} THEN R
  ELSE LET path == CHOOSE x \in paths : TRUE
       IN reloadAll(reload(R, path), paths \ {path})

moduleHandler_init(R) ==
  LET found == {q \in QueryModules : R.disk[q] # "missing"}
      R1 == reloadAll(R, found)
  IN [reload(R1, PostProcessorPath) EXCEPT !.ret = Undefined]

----------------------------------------------------------------------------
\* The include parser (src/unnamed/part_001, lines 49-162).
\*
\* A string the parser takes apart is the sequence of its tokens: a token is
\* a separator ("." in a reference path, "?", "&", "=" in a referenced
\* string) or a run of other characters in one letter case, so that
\* "data.entityInclude" is <<"data", ".", "entity", "Include">>.  A property
\* name is such a string, and a Document is a tree whose key paths are
\* sequences of names.  A string value is a "str" cell.

Str(s) == [k |-> "str", s |-> s]

\* Mutant of toLowerCase: the letter case is kept.
toLowerCase_kept(s) == s

\* String.prototype.toLowerCase on the tokens of the model.
toLowerCase(s) ==
  LET lower(tok) ==
        CASE tok \in {"Include", "INCLUDE"} -> "include"
          [] tok \in {"Entity", "ENTITY"} -> "entity"
          [] tok \in {"Query", "QUERY"} -> "query"
          [] tok \in {"Config", "CONFIG"} -> "config"
          [] tok \in {"Custom", "CUSTOM"} -> "custom"
          [] tok \in {"Locale", "LOCALE"} -> "locale"
          [] OTHER -> tok
  IN [i \in 1..Len(s) |-> lower(s[i])]

\* String.prototype.endsWith.
endsWith(s, suffix) ==
  /\ Len(s) >= Len(suffix)
  /\ SubSeq(s, Len(s) - Len(suffix) + 1, Len(s)) = suffix

\* String.prototype.split(sep): the pieces between the separators.
RECURSIVE split(_, _)
split(s, sep) ==
  IF \A i \in 1..Len(s) : s[i] # sep THEN <<s>>
  ELSE LET i == CHOOSE x \in 1..Len(s) : s[x] = sep /\ \A j \in 1..(x - 1) : s[j] # sep
       IN <<SubSeq(s, 1, i - 1)>> \o split(SubSeq(s, i + 1, Len(s)), sep)

\* new URLSearchParams(queryString): the name-value pairs of the string in
\* order; a pair is split at its first "=".
URLSearchParams(queryString) ==
  LET pieces == SelectSeq(split(queryString, "&"), LAMBDA piece : piece # <<>>)
      pair(piece) ==
        LET kv == split(piece, "=")
        IN [name |-> kv[1],
            value |-> SubSeq(piece, Len(kv[1]) + 2, Len(piece))]
  IN [i \in 1..Len(pieces) |-> pair(pieces[i])]

\* params.getAll(key) and params.get(key).
RECURSIVE getAll(_, _)
getAll(params, key) ==
  IF params = <<>> THEN <<>>
  ELSE (IF Head(params).name = key THEN <<Head(params).value>> ELSE <<>>)
       \o getAll(Tail(params), key)
getFirst(params, key) == getAll(params, key)[1]

\* Mutant of parseParams: every parameter maps to its first value.
parseParams_first(queryString) ==
  LET params == URLSearchParams(queryString)
  IN [key \in {params[i].name : i \in 1..Len(params)} |-> Str(getFirst(params, key))]

\* parseParams(queryString) (lines 61-74).
parseParams(queryString) ==
  LET params == URLSearchParams(queryString)
  IN [key \in {params[i].name : i \in 1..Len(params)} |->
        IF Len(getAll(params, key)) > 1
        THEN Arr(getAll(params, key))
        ELSE Str(getFirst(params, key))]

\* getObjectValue(fileContent, includePath): the value at the dot-delimited
\* path of the Document, undefined when there is none.
getObjectValue(T, includePath) ==
  LET path == split(includePath, ".")
  IN IF path \in DOMAIN T THEN T[path] ELSE Undefined

\* obj[key] = value where the value may be undefined (p is then read as
\* undefined afterwards).
SetValue(T, p, sub) ==
  IF sub = UndefinedValue THEN Delete(T, p) ELSE Assign(T, p, sub)

\* The Documents of the Store the references of the model point to: two with
\* the data.content shape, one without; any other path yields nothing.
EntityContent == (<<>> :> Obj) @@ (<< <<"title">> >> :> Str(<<"yyy">>))
EntityDocument ==
  (<<>> :> Obj) @@ (<< <<"data">> >> :> Obj) @@
  (<< <<"data">>, <<"content">> >> :> Obj) @@
  (<< <<"data">>, <<"content">>, <<"title">> >> :> Str(<<"yyy">>))
ConfigDocument == (<<>> :> Obj) @@ (<< <<"name">> >> :> Str(<<"site">>))
\* A Document with the data.content shape whose content holds a query
\* reference of its own.
TeaserDocument ==
  (<<>> :> Obj) @@ (<< <<"data">> >> :> Obj) @@
  (<< <<"data">>, <<"content">> >> :> Obj) @@
  (<< <<"data">>, <<"content">>, <<"query", "Include">> >> :> Str(<<"all">>))

\* store.data.get(includePathValue) (line 84).
storeGet(includePathValue) ==
  IF includePathValue = Str(<<"en/node/1.json">>) THEN EntityDocument
  ELSE IF includePathValue = Str(<<"en/node/2.json">>) THEN TeaserDocument
  ELSE IF includePathValue = Str(<<"config.json">>) THEN ConfigDocument
  ELSE UndefinedValue

\* queryRunner.run(queryId, queryArgs): the resolved data, which here names
\* the query it answers.
queryRunner_run(queryId, queryArgs) ==
  Leaf([k |-> "result", queryId |-> queryId, queryArgs |-> queryArgs])

\* A pass in progress is the record D of the Document (doc), the calls made
\* on the mounting strategies (mounts) and on the query runner (runs), and
\* the error raised (err).
Mounted(D, strategy, type, mountPointPath, includeKey, includeData, doc) ==
  [D EXCEPT !.doc = doc,
            !.mounts = Append(@, [strategy |-> strategy, type |-> type,
                                  mountPointPath |-> mountPointPath,
                                  includeKey |-> includeKey,
                                  includeData |-> includeData])]

\* aliasWithoutTypeIncludeParser(args, type): the data is mounted in the
\* mount point under the include key without its "<type>Include" ending
\* (under the type when nothing is left), and the include key is removed.
aliasWithoutTypeIncludeParser(D, includeData, mountPointPath, includeKey, type) ==
  LET n == Len(includeKey) - 2
      alias == IF n > 0 THEN SubSeq(includeKey, 1, n) ELSE <<type>>
      T1 == SetValue(D.doc, Append(mountPointPath, alias), includeData)
  IN Mounted(D, "aliasWithoutType", type, mountPointPath, includeKey, includeData,
             Delete(T1, Append(mountPointPath, includeKey)))

\* entityIncludeParser(args): the mount point becomes includeData.data.content,
\* undefined when the data has no such content.
entityIncludeParser(D, includeData, mountPointPath, includeKey) ==
  LET content == << <<"data">>, <<"content">> >>
      inner == IF content \in DOMAIN includeData
               THEN SubTree(includeData, content) ELSE UndefinedValue
  IN Mounted(D, "entity", "entity", mountPointPath, includeKey, includeData,
             SetValue(D.doc, mountPointPath, inner))

\* configIncludeParser, customIncludeParser and localeIncludeParser: each
\* mounts by its own policy, taken here to be the generic one.
configIncludeParser(D, includeData, mountPointPath, includeKey) ==
  [aliasWithoutTypeIncludeParser(D, includeData, mountPointPath, includeKey, "config")
     EXCEPT !.mounts[Len(D.mounts) + 1].strategy = "config"]
customIncludeParser(D, includeData, mountPointPath, includeKey) ==
  [aliasWithoutTypeIncludeParser(D, includeData, mountPointPath, includeKey, "custom")
     EXCEPT !.mounts[Len(D.mounts) + 1].strategy = "custom"]
localeIncludeParser(D, includeData, mountPointPath, includeKey) ==
  [aliasWithoutTypeIncludeParser(D, includeData, mountPointPath, includeKey, "locale")
     EXCEPT !.mounts[Len(D.mounts) + 1].strategy = "locale"]

\* Mutant of mountPoint: the include key is not popped off the path.
mountPoint_whole(parts) == parts

\* Lines 86-87 and 143-144: includePath.split('.') with its last part popped.
mountPoint(parts) == SubSeq(parts, 1, Len(parts) - 1)

\* The callback of includes.forEach in static.run (lines 82-122).
staticInclude(D, includePath) ==
  LET includePathValue == getObjectValue(D.doc, includePath)
      includeData == storeGet(includePathValue)
      parts == split(includePath, ".")
      mountPointPath == mountPoint(parts)
      includeKey == parts[Len(parts)]
      key == toLowerCase(includeKey)
      D1 == IF endsWith(key, <<"config", "include">>)
            THEN configIncludeParser(D, includeData, mountPointPath, includeKey) ELSE D
      D2 == IF endsWith(key, <<"entity", "include">>)
            THEN entityIncludeParser(D1, includeData, mountPointPath, includeKey) ELSE D1
      D3 == IF endsWith(key, <<"custom", "include">>)
            THEN customIncludeParser(D2, includeData, mountPointPath, includeKey) ELSE D2
      D4 == IF endsWith(key, <<"locale", "include">>)
            THEN localeIncludeParser(D3, includeData, mountPointPath, includeKey) ELSE D3
  IN IF includeKey = <<>> THEN D ELSE D4

\* The callback of includes.forEach in dynamic.run (lines 132-157); a
\* referenced value that is no string has no split (a TypeError).
dynamicInclude(D, includePath) ==
  IF ~endsWith(toLowerCase(includePath), <<"query", "include">>) THEN D
  ELSE LET value == getObjectValue(D.doc, includePath)
       IN IF value.k # "str" THEN [D EXCEPT !.err = "TypeError"]
          ELSE LET queryData == split(value.s, "?")
                   queryId == queryData[1]
                   queryArgs == IF Len(queryData) > 1 /\ queryData[2] # <<>>
                                THEN parseParams(queryData[2]) ELSE <<>>
                   includeData == queryRunner_run(queryId, queryArgs)
                   parts == split(includePath, ".")
                   mountPointPath == mountPoint(parts)
                   includeKey == parts[Len(parts)]
                   D1 == [D EXCEPT !.runs = Append(@, [queryId |-> queryId,
                                                        queryArgs |-> queryArgs])]
               IN IF includeKey = <<>> THEN D1
                  ELSE aliasWithoutTypeIncludeParser(D1, includeData, mountPointPath,
                                                     includeKey, "query")

\* includes.forEach(callback) from reference i on; an error ends the pass.
RECURSIVE forEachInclude(_, _, _, _)
forEachInclude(D, includes, i, pass) ==
  IF i > Len(includes) \/ D.err # "none" THEN D
  ELSE forEachInclude(IF pass = "static" THEN staticInclude(D, includes[i])
                      ELSE dynamicInclude(D, includes[i]),
                      includes, i + 1, pass)

\* includeParser.static.run(fileContent) (lines 78-125) and
\* includeParser.dynamic.run(fileContent) (lines 128-160).
static_run(D, includes) == forEachInclude([D EXCEPT !.err = "none"], includes, 1, "static")
dynamic_run(D, includes) == forEachInclude([D EXCEPT !.err = "none"], includes, 1, "dynamic")

----------------------------------------------------------------------------
VARIABLES
  data,           \* store.data, the live tree
  stage,          \* store.stage, the staging tree
  cache,          \* the data of the cache module
  postProcessor,  \* the hooks of the configured post-processor, or Null
  err,            \* what the last call raised, "none" when it returned
  warned,         \* whether the last call logged a warning
  last,           \* the last call and its arguments
  before,         \* store.data, store.stage, the cache and last as the last call found them
  sourceRead,     \* whether the last call read a file from the ingestion source
  cacheOps,       \* the calls made on the cache module itself, in order
  hookCalls,      \* the calls the last call made on the hooks of the post-processor, in order
  modules,        \* the registry of moduleHandler: path -> handle
  requireCache,   \* require.cache: path -> exports
  pathCache,      \* the paths resolved so far
  disk,           \* the build of each module file on disk
  evals,          \* module evaluations made so far
  moduleCall,     \* the last call on moduleHandler, what it returned and found
  got,            \* path -> the handle the last get returned, no load or remove of the path since
  discarded,      \* the usable handles that failed loads found in the registry
  fileContent,    \* the Document the include parser works on
  includes,       \* its metadata.includes: the declared reference paths
  passes,         \* the passes run on it so far, in order
  mounts,         \* the calls the last pass made on the mounting strategies
  runs,           \* the calls the last pass made on the query runner
  passErr,        \* what the last pass raised, "none" when it returned
  nops            \* calls made so far

registryVars == <<modules, requireCache, pathCache, disk, evals, moduleCall, got, discarded>>
includeVars == <<fileContent, includes, passes, mounts, runs, passErr>>
vars == <<data, stage, cache, postProcessor, err, warned, last, before, sourceRead, cacheOps,
          hookCalls,
          registryVars, includeVars, nops>>

Store == [data |-> data, stage |-> stage, cache |-> cache,
          err |-> "none", warned |-> FALSE, read |-> FALSE, hooks |-> <<>>]

NoSrc == "-"
NoArg == "-"
Call(op, file, useStage, useCache, src) ==
  [op |-> op, file |-> file, useStage |-> useStage, useCache |-> useCache, src |-> src]

\* The registry at the start of a call on moduleHandler.
Registry == [modules |-> modules, requireCache |-> requireCache,
             pathCache |-> pathCache, disk |-> disk, evals |-> evals,
             ret |-> Undefined, err |-> "none", loaded |-> {}, failed |-> {},
             discarded |-> discarded]

\* A call on moduleHandler as it ended in R: what it returned and raised,
\* the paths it called load on and those whose load raised, the disk it ran against, and the registry,
\* require.cache and got as it found them.
ModuleCall(op, path, R, modulesBefore, cachedBefore, gotBefore) ==
  [op |-> op, path |-> path, ret |-> R.ret, err |-> R.err, loaded |-> R.loaded,
   failed |-> R.failed, disk |-> R.disk, modules |-> modulesBefore, requireCache |-> cachedBefore,
   got |-> gotBefore]

Becomes(S, call) ==
  /\ data' = S.data
  /\ stage' = S.stage
  /\ cache' = S.cache
  /\ err' = S.err
  /\ warned' = S.warned
  /\ sourceRead' = S.read
  /\ hookCalls' = S.hooks
  /\ last' = call
  /\ before' = [data |-> data, stage |-> stage, cache |-> cache, last |-> last]
  /\ nops' = nops + 1
  /\ UNCHANGED <<postProcessor, cacheOps, registryVars, includeVars>>

\* The references a Document of the model can declare.  A reference is the
\* path of its mount point, its include key and the string it refers to;
\* kind, queryId and queryArgs say what the reference is meant to be: the
\* strategy it is for ("none": no include) and, for a query, the query and
\* its parameters.
Ref(mountPointPath, includeKey, value, kind, queryId, queryArgs) ==
  [mountPointPath |-> mountPointPath, includeKey |-> includeKey, value |-> value,
   kind |-> kind, queryId |-> queryId, queryArgs |-> queryArgs]
EntityMount == << <<"data">>, <<"content">>, <<"entity">> >>
AuthorMount == << <<"data">>, <<"author">> >>
ListMount == << <<"data">>, <<"list">> >>
Refs ==
  { \* data.content.entity.entityInclude = "en/node/1.json"
    Ref(EntityMount, <<"entity", "Include">>, <<"en/node/1.json">>, "entity", <<>>, <<>>),
    \* data.content.entity.teaserEntityInclude = "en/node/2.json"
    Ref(EntityMount, <<"teaser", "Entity", "Include">>, <<"en/node/2.json">>, "entity", <<>>, <<>>),
    \* data.author.authorENTITYINCLUDE = "missing.json", which the Store has not
    Ref(AuthorMount, <<"author", "ENTITY", "INCLUDE">>, <<"missing.json">>, "entity", <<>>, <<>>),
    \* data.list.entityInclude = "config.json", a Document without data.content
    Ref(ListMount, <<"entity", "Include">>, <<"config.json">>, "entity", <<>>, <<>>),
    \* data.content.entity.queryInclude = "rel?tag=foo&lang=en&tag=bar"
    Ref(EntityMount, <<"query", "Include">>,
        <<"rel", "?", "tag", "=", "foo", "&", "lang", "=", "en", "&", "tag", "=", "bar">>,
        "query", <<"rel">>,
        (<<"tag">> :> Arr(<< <<"foo">>, <<"bar">> >>)) @@ (<<"lang">> :> Str(<<"en">>))),
    \* data.list.relatedQUERYINCLUDE = "all"
    Ref(ListMount, <<"related", "QUERY", "INCLUDE">>, <<"all">>, "query", <<"all">>, <<>>),
    \* data.author.configInclude = "config.json"
    Ref(AuthorMount, <<"config", "Include">>, <<"config.json">>, "config", <<>>, <<>>),
    \* data.list.customInclude = "en/node/1.json"
    Ref(ListMount, <<"custom", "Include">>, <<"en/node/1.json">>, "custom", <<>>, <<>>),
    \* data.author.LocaleInclude = "missing.json"
    Ref(AuthorMount, <<"Locale", "Include">>, <<"missing.json">>, "locale", <<>>, <<>>),
    \* data.list.entityIncluded = "en/node/1.json", no include
    Ref(ListMount, <<"entity", "Included">>, <<"en/node/1.json">>, "none", <<>>, <<>>) }

\* Bounds of the include parser: references a Document declares, passes run
\* on it.
MaxRefs == 2
MaxPasses == 2

\* The reference path of a reference: the names joined with dots.
RECURSIVE join(_, _)
join(names, sep) ==
  IF Len(names) = 1 THEN names[1]
  ELSE names[1] \o <<sep>> \o join(Tail(names), sep)
IncludePath(ref) == join(Append(ref.mountPointPath, ref.includeKey), ".")

\* The Document that declares the references refs: its mount points, and in
\* each the referenced strings under their include keys.
DocumentWith(refs) ==
  LET objs == UNION {{SubSeq(refs[j].mountPointPath, 1, i) :
                        i \in 0..Len(refs[j].mountPointPath)} : j \in 1..Len(refs)}
                 \cup {<<>>}
      strs == {Append(refs[j].mountPointPath, refs[j].includeKey) : j \in 1..Len(refs)}
  IN [q \in objs \cup strs |->
        IF q \in objs THEN Obj
        ELSE LET r == CHOOSE x \in {refs[j] : j \in 1..Len(refs)} :
                        Append(x.mountPointPath, x.includeKey) = q
             IN Str(r.value)]

\* The reference lists: up to MaxRefs references, none twice.
RefLists ==
  UNION {{s \in [1..n -> Refs] : \A i, j \in 1..n : i # j => s[i] # s[j]} : n \in 0..MaxRefs}

\* The store and the registry before any call, pp being what
\* getPostProcessor() returns (lines 80-81).
InitStoreWith(pp) ==
  /\ data = storeDataSkeleton
  /\ stage = storeDataSkeleton
  /\ cache = <<>>
  /\ postProcessor = pp
  /\ hookCalls = <<>>
  /\ err = "none"
  /\ warned = FALSE
  /\ sourceRead = FALSE
  /\ last = Call("init", <<>>, FALSE, FALSE, NoSrc)
  /\ before = [data |-> data, stage |-> stage, cache |-> cache, last |-> last]
  /\ nops = 0
  /\ cacheOps = <<>>
  /\ modules = [path \in Paths |-> Undefined]
  /\ requireCache = [path \in Paths |-> Undefined]
  /\ pathCache = {}
  /\ disk = [path \in Paths |-> "b1"]
  /\ evals = 0
  /\ got = [path \in Paths |-> Undefined]
  /\ discarded = {}
  /\ moduleCall = ModuleCall("start", NoArg, Registry, modules, requireCache, got)

InitStore == InitStoreWith(Null)

\* The include parser before any pass, on the Document that declares refs.
InitIncludes(refs) ==
  /\ fileContent = DocumentWith(refs)
  /\ includes = [i \in 1..Len(refs) |-> IncludePath(refs[i])]
  /\ passes = <<>>
  /\ mounts = <<>>
  /\ runs = <<>>
  /\ passErr = "none"

Init == InitStore /\ InitIncludes(<<>>)

\* The inputs of the calls: every file of the source with every text, the
\* refused paths with one text.
AddInputs ==
  (Files \X Texts) \cup ((ReservedAddFiles \cup {EmptyFile}) \X {"{v:1}"})
RemoveFiles ==
  Files \cup MissingDirFiles \cup ReservedRemoveFiles \cup {EmptyFile}

AddWith(inputs, stages, caches) ==
  /\ nops < MaxOps
  /\ \E in \in inputs, useStage \in stages, useCache \in caches,
        hk \in HookPlays(postProcessor) :
       Becomes(add(Store, postProcessor, in[1],
                   [useStage |-> useStage, useCache |-> useCache], in[2], hk),
               Call("add", in[1], useStage, useCache, in[2]))

RemoveWith(files) ==
  /\ nops < MaxOps
  /\ \E file \in files, hk \in HookPlays(postProcessor) :
       Becomes(remove(Store, postProcessor, file, hk),
               Call("remove", file, FALSE, FALSE, NoSrc))

UpdateWith(inputs) ==
  /\ nops < MaxOps
  /\ \E in \in inputs, hk \in HookPlays(postProcessor) :
       Becomes(update(Store, postProcessor, in[1], in[2], hk),
               Call("update", in[1], FALSE, FALSE, in[2]))

PromoteStage ==
  /\ nops < MaxOps
  /\ Becomes(promoteStage(Store), Call("promoteStage", <<>>, FALSE, FALSE, NoSrc))

\* The live tree: add without options, remove, update, promoteStage.
Add == AddWith(AddInputs, {FALSE}, {FALSE})
Remove == RemoveWith(RemoveFiles)
Update == UpdateWith(AddInputs)

Next == Add \/ Remove \/ Update \/ PromoteStage

Spec == Init /\ [][Next]_vars

\* The staging tree beside the live tree: add with and without useStage,
\* remove, promoteStage.
StageInputs ==
  ({<<"a.json">>, <<"en", "a.json">>, <<"en", "a--t.json">>} \X AllTexts) \cup
  ({<<"en", JSON_ITEMS, "a.json">>} \X {"{v:1}"})
StageAdd == AddWith(StageInputs, BOOLEAN, {FALSE})
StageRemove == RemoveWith({<<"a.json">>, <<"en", "a.json">>, <<"en", "a--t.json">>})

NextStage == StageAdd \/ StageRemove \/ PromoteStage

SpecStage == Init /\ [][NextStage]_vars

\* The cache under add: add with and without useCache, the source holding
\* any of the texts for the file at each call, and remove.
CacheInputs ==
  ({<<"a.json">>, <<"en", "a.json">>} \X AllTexts) \cup
  ({<<"en", JSON_ITEMS, "a.json">>} \X {"{v:1}"})
CacheAdd == AddWith(CacheInputs, {FALSE}, BOOLEAN)
CacheRemove == RemoveWith({<<"a.json">>, <<"en", "a.json">>})

NextCache == CacheAdd \/ CacheRemove

SpecCache == Init /\ [][NextCache]_vars

\* The cache module called on its own: set, remove and reset on two
\* namespaces, two keys and two values.
Bins == {"file", "query"}
Keys == {"k1", "k2"}
Values == {Raw("v1"), Raw("v2")}
CacheCall(op, bin, key, value) == [op |-> op, bin |-> bin, key |-> key, value |-> value]

CacheBecomes(C, call) ==
  /\ nops < MaxOps
  /\ cache' = C
  /\ cacheOps' = Append(cacheOps, call)
  /\ before' = [data |-> data, stage |-> stage, cache |-> cache, last |-> last]
  /\ nops' = nops + 1
  /\ UNCHANGED <<data, stage, postProcessor, err, warned, last, sourceRead, hookCalls, registryVars,
                 includeVars>>

Set ==
  \E bin \in Bins, key \in Keys, value \in Values :
    CacheBecomes(cache_set(cache, bin, key, value), CacheCall("set", bin, key, value))
RemoveKey ==
  \E bin \in Bins, key \in Keys :
    CacheBecomes(cache_remove(cache, bin, key), CacheCall("remove", bin, key, Undefined))
Reset ==
  \E bin \in Bins :
    CacheBecomes(cache_reset(cache, bin), CacheCall("reset", bin, NoArg, Undefined))

NextCacheOps == Set \/ RemoveKey \/ Reset

SpecCacheOps == Init /\ [][NextCacheOps]_vars

\* The store with a post-processor: what getPostProcessor() returns is a
\* module that exposes any of processFile and storeAdd, or null.
PostProcessors ==
  {Null} \cup [processFile : BOOLEAN, storeAdd : BOOLEAN, storeRemove : {FALSE}]

HookInputs == {<<"en", "a.json">>, <<"a--t.json">>} \X Texts

InitHooks == (\E pp \in PostProcessors : InitStoreWith(pp)) /\ InitIncludes(<<>>)

HookAdd == AddWith(HookInputs, {FALSE}, {FALSE})
HookRemove == RemoveWith({<<"en", "a.json">>, <<"a--t.json">>})

NextHooks == HookAdd \/ HookRemove

SpecHooks == InitHooks /\ [][NextHooks]_vars

\* The module registry: load, get, remove and init, the module files
\* changing on disk between the calls.
storeVars == <<data, stage, cache, postProcessor, err, warned, last, before,
               sourceRead, cacheOps, hookCalls>>

\* The registry after a call is R; the paths in touched were loaded or
\* removed by it, and get returned gotNow.
RegistryBecomes(R, op, path, touched, gotNow) ==
  /\ nops < MaxCalls
  /\ modules' = R.modules
  /\ requireCache' = R.requireCache
  /\ pathCache' = R.pathCache
  /\ evals' = R.evals
  /\ discarded' = R.discarded
  /\ moduleCall' = ModuleCall(op, path, R, modules, requireCache, got)
  /\ got' = [q \in Paths |-> IF q = path /\ op = "get" THEN gotNow
                              ELSE IF q \in touched THEN Undefined ELSE got[q]]
  /\ nops' = nops + 1
  /\ UNCHANGED <<disk, storeVars, includeVars>>

Load ==
  \E path \in Paths :
    LET R == moduleHandler_load(Registry, path)
    IN RegistryBecomes(R, "load", path, R.loaded, Undefined)
Get ==
  \E path \in Paths :
    LET R == moduleHandler_get(Registry, path)
    IN RegistryBecomes(R, "get", path, R.loaded, R.ret)
RemoveModule ==
  \E path \in Paths :
    LET R == moduleHandler_remove(Registry, path)
    IN RegistryBecomes(R, "remove", path, {path}, Undefined)
ModuleInit ==
  LET R == moduleHandler_init(Registry)
  IN RegistryBecomes(R, "init", NoArg, R.loaded, Undefined)
\* A module file is rebuilt, emptied or deleted.
Change ==
  \E path \in Paths, d \in DiskStates :
    /\ nops < MaxCalls
    /\ d # disk[path]
    /\ disk' = [disk EXCEPT ![path] = d]
    /\ nops' = nops + 1
    /\ UNCHANGED <<modules, requireCache, pathCache, evals, moduleCall, got,
                   discarded, storeVars, includeVars>>

NextRegistry == Load \/ Get \/ RemoveModule \/ ModuleInit \/ Change

SpecRegistry == Init /\ [][NextRegistry]_vars

\* The include parser: a Document that declares some references, and the
\* two passes run on it in any order.
InitInclude == InitStore /\ \E refs \in RefLists : InitIncludes(refs)

Pass == [doc |-> fileContent, mounts |-> <<>>, runs |-> <<>>, err |-> "none"]

PassBecomes(D, pass) ==
  /\ Len(passes) < MaxPasses
  /\ fileContent' = D.doc
  /\ mounts' = D.mounts
  /\ runs' = D.runs
  /\ passErr' = D.err
  /\ passes' = Append(passes, pass)
  /\ UNCHANGED <<includes, storeVars, registryVars, nops>>

StaticRun == PassBecomes(static_run(Pass, includes), "static")
DynamicRun == PassBecomes(dynamic_run(Pass, includes), "dynamic")

NextInclude == StaticRun \/ DynamicRun

SpecInclude == InitInclude /\ [][NextInclude]_vars


----------------------------------------------------------------------------
\* Vocabulary of the claims.

IsReserved(p) == \E i \in 1..Len(p) : p[i] = JSON_ITEMS
VariantNames == {"t"}

\* The Tree Nodes of a tree (its root and directories) and its Documents.
Levels(T) == {p \in DOMAIN T : T[p].k = "obj" /\ ~IsReserved(p)}
Documents(T) == {p \in DOMAIN T : T[p].k \in {"json", "raw"} /\ ~IsReserved(p)}
IsDocument(T, p) == p \in Documents(T)

\* The parsed Documents of variant v ("null": no variant) at or below level L.
ParsedBelow(T, L, v) ==
  {p \in Documents(T) : HasPrefix(p, L) /\ T[p].k = "json" /\ getVariantName(p) = v}

MainOf(L) == L \o <<JSON_ITEMS, MAIN>>
VariantsOf(L) == L \o <<JSON_ITEMS, VARIANTS>>
GroupOf(L, v) == L \o <<JSON_ITEMS, VARIANTS, v>>
Items(T, p) == IF p \in DOMAIN T /\ T[p].k = "arr" THEN T[p].items ELSE <<>>

\* The Document the source text src makes at file: the parsed content with
\* its provenance, or the raw text.
DocumentOf(file, src) ==
  IF parseJsonString(src) # Null
  THEN Leaf([parseJsonString(src) EXCEPT !.fn = file])
  ELSE Leaf(Raw(src))

\* C1: at every level L of the live tree, main holds as many entries as
\* there are parsed non-variant Documents at or below L, and variants[v] as
\* many as there are parsed Documents of variant v at or below L.
C1_IndexCounts ==
  \A L \in Levels(data) :
    /\ Len(Items(data, MainOf(L))) = Cardinality(ParsedBelow(data, L, "null"))
    /\ \A v \in VariantNames :
         Len(Items(data, GroupOf(L, v))) = Cardinality(ParsedBelow(data, L, v))


\* The Document an add call accepts: the cached one when useCache is set and
\* the cache held an entry, else the one the source text makes.
AcceptedDocument ==
  LET c == cache_get(before.cache, "file", last.file)
  IN IF last.useCache /\ c # Undefined
     THEN Leaf(IF c.json # Null THEN [c.json EXCEPT !.fn = last.file] ELSE c.raw)
     ELSE DocumentOf(last.file, last.src)

\* C2: right after an add against the live tree that returned, for a
\* non-empty path without reserved segment, get of the path is the Document.
C2_GetAfterAdd ==
  (/\ last.op = "add" /\ ~last.useStage /\ err = "none"
   /\ last.file # EmptyFile /\ ~IsReserved(last.file))
  => get(data, last.file) = AcceptedDocument

C2_Witness ==
  /\ last.op = "add" /\ ~last.useStage /\ err = "none"
  /\ last.file = <<"en", "a.json">>
  /\ IsDocument(before.data, last.file)
  /\ get(before.data, last.file) # get(data, last.file)

\* C3: right after remove(P) of a path that held a Document in the live
\* tree, get(P) is absent.
C3_GetAfterRemove ==
  (last.op = "remove" /\ IsDocument(before.data, last.file))
  => get(data, last.file) = UndefinedValue

C3_Witness ==
  /\ last.op = "remove" /\ last.file = <<"en", "a--t.json">>
  /\ IsDocument(before.data, last.file)
  /\ IsDocument(data, <<"en", "a.json">>)

\* The entries of an Index sequence that do not come from file.
RECURSIVE Without(_, _)
Without(items, file) ==
  IF items = <<>> THEN <<>>
  ELSE IF Head(items).fn = file THEN Without(Tail(items), file)
  ELSE <<Head(items)>> \o Without(Tail(items), file)

\* The Index sequences of the levels on the path of file: the root and
\* every directory of the path.
SequencesOn(T, file) ==
  {p \in DOMAIN T :
     /\ T[p].k = "arr"
     /\ \E i \in 0..(Len(file) - 1) :
          \/ p = MainOf(SubSeq(file, 1, i))
          \/ \E v \in VariantNames : p = GroupOf(SubSeq(file, 1, i), v)}

\* C4: after remove(P) of a Document of the live tree, no Index sequence on
\* the path of P holds an entry that comes from P, and every other entry of
\* these sequences is still there.
C4_RemovedFromEveryIndex ==
  (last.op = "remove" /\ IsDocument(before.data, last.file))
  => \A p \in SequencesOn(before.data, last.file) :
       /\ Without(Items(data, p), last.file) = Items(data, p)
       /\ Without(Items(data, p), last.file) = Without(before.data[p].items, last.file)

\* C5: an add with useStage leaves the live tree and its Indices as they were.
C5_StageLeavesLive ==
  (last.op = "add" /\ last.useStage) => data = before.data

C5_Witness ==
  /\ last.op = "add" /\ last.useStage /\ err = "none"
  /\ stage # before.stage
  /\ IsDocument(data, last.file)
  /\ get(data, last.file) # get(stage, last.file)

\* C6: promoteStage makes the live tree the staging tree as it was and the
\* staging tree the empty skeleton; an add with useStage right after it
\* leaves the promoted live tree as it is.
C6_Promote ==
  /\ last.op = "promoteStage" =>
       data = before.stage /\ stage = storeDataSkeleton
  /\ (last.op = "add" /\ last.useStage /\ before.last.op = "promoteStage") =>
       data = before.data

C6_Witness ==
  /\ last.op = "promoteStage"
  /\ before.stage # storeDataSkeleton
  /\ before.data # storeDataSkeleton
  /\ Documents(before.data) \ Documents(before.stage) # {}

\* C7: add of a path that holds the reserved segment, or of the empty path,
\* leaves both trees as they were and returns; the reserved segment is
\* warned about.
C7_ReservedRefused ==
  (last.op = "add" /\ (last.file = EmptyFile \/ IsReserved(last.file)))
  => /\ data = before.data
     /\ stage = before.stage
     /\ err = "none"
     /\ IsReserved(last.file) => warned

C7_Witness ==
  /\ last.op = "add" /\ last.file = <<"en", JSON_ITEMS, "a.json">>
  /\ warned
  /\ IsDocument(data, <<"en", "a.json">>)

\* Some directory segment of file is not in the tree.
MissingSegment(T, file) ==
  \E i \in 1..(Len(file) - 1) : SubSeq(file, 1, i) \notin DOMAIN T

\* C8: remove(P) with a directory segment of P absent from the live tree
\* returns and leaves the live tree as it was (stated for the paths without
\* reserved segment).
C8_RemoveMissingNoop ==
  (/\ last.op = "remove" /\ ~IsReserved(last.file)
   /\ MissingSegment(before.data, last.file))
  => data = before.data /\ err = "none"

\* C9: no Index of either tree holds an empty variant group.
C9_NoEmptyGroup ==
  \A T \in {data, stage} :
    \A p \in DOMAIN T :
      (Len(p) >= 2 /\ p[Len(p) - 1] = VARIANTS /\ T[p].k = "arr") => T[p].items # <<>>

C9_Witness ==
  /\ last.op = "remove" /\ last.file = <<"en", "a--t.json">>
  /\ GroupOf(<<"en">>, "t") \in DOMAIN before.data
  /\ GroupOf(<<"en">>, "t") \notin DOMAIN data
  /\ VariantsOf(<<"en">>) \in DOMAIN data
  /\ Len(Items(data, GroupOf(<<>>, "t"))) = 1

\* C10: every Tree Node of either tree owns an Index whose main is a
\* sequence and whose variants is a mapping.
C10_WellFormedIndex ==
  \A T \in {data, stage} :
    \A L \in Levels(T) :
      /\ MainOf(L) \in DOMAIN T /\ T[MainOf(L)].k = "arr"
      /\ VariantsOf(L) \in DOMAIN T /\ T[VariantsOf(L)].k = "obj"


\* A store nothing was added to, and the store after add(dataDir, file) with
\* the default options on it, the source holding src for the file.
EmptyStore == [data |-> storeDataSkeleton, stage |-> storeDataSkeleton,
               cache |-> <<>>, err |-> "none", warned |-> FALSE, read |-> FALSE,
               hooks |-> <<>>]
DefaultOptions == [useStage |-> FALSE, useCache |-> FALSE]
NoHooks == [pf |-> "plain", sa |-> "ok", sr |-> "ok"]
FreshAdd(file, src) == add(EmptyStore, Null, file, DefaultOptions, src, NoHooks)

\* C11: right after update(dir, P), whatever the live tree was, get(P) is
\* what get(P) is after add(dir, P) on an empty store, the source holding
\* the same text for P.
C11_UpdateLikeFreshAdd ==
  last.op = "update"
  => get(data, last.file) = get(FreshAdd(last.file, last.src).data, last.file)

\* C12: an add of an accepted path reads the file from the source exactly
\* when useCache is unset or the cache held no entry for the path; when
\* useCache is set and an entry was held, the Document inserted is the
\* cached one; afterwards the cache holds an entry for the path.
C12_CacheRead ==
  (last.op = "add" /\ last.file # EmptyFile /\ ~IsReserved(last.file))
  => LET c == cache_get(before.cache, "file", last.file)
     IN /\ sourceRead <=> (~last.useCache \/ c = Undefined)
        /\ (last.useCache /\ c # Undefined) =>
             get(data, last.file) = Leaf(IF c.json # Null THEN c.json ELSE c.raw)
        /\ cache_get(cache, "file", last.file) # Undefined

\* An add with useCache of a file whose text changed since it was cached.
C12_Witness ==
  /\ last.op = "add" /\ last.useCache /\ ~sourceRead
  /\ get(data, last.file) # DocumentOf(last.file, last.src)
  /\ get(data, last.file) # get(before.data, last.file)

\* What the calls ops leave stored at (ns, k): the value of the most recent
\* set(ns, k, v) that no remove(ns, k) and no reset(ns) follows.
RECURSIVE MostRecent(_, _, _)
MostRecent(ops, ns, k) ==
  IF ops = <<>> THEN Undefined
  ELSE LET o == ops[Len(ops)]
       IN IF o.bin = ns /\ o.op = "reset" THEN Undefined
          ELSE IF o.bin = ns /\ o.key = k /\ o.op = "remove" THEN Undefined
          ELSE IF o.bin = ns /\ o.key = k /\ o.op = "set" THEN o.value
          ELSE MostRecent(SubSeq(ops, 1, Len(ops) - 1), ns, k)

\* A namespace no call names.
NeverWritten == "never"

\* C13: after any sequence of set, remove and reset, get(ns, k) is the
\* value of the most recent set(ns, k, v) not followed by remove(ns, k) or
\* reset(ns), absent otherwise; countItems(ns) is the number of keys get
\* finds stored in ns, 0 for a namespace never written; the last call left
\* every namespace but its own as it was.
C13_CacheContract ==
  /\ \A ns \in Bins \cup {NeverWritten}, k \in Keys :
       cache_get(cache, ns, k) = MostRecent(cacheOps, ns, k)
  /\ \A ns \in Bins \cup {NeverWritten} :
       cache_countItems(cache, ns) =
         Cardinality({k \in Keys : cache_get(cache, ns, k) # Undefined})
  /\ cache_countItems(cache, NeverWritten) = 0
  /\ cacheOps # <<>> =>
       \A ns \in (Bins \cup {NeverWritten}) \ {cacheOps[Len(cacheOps)].bin} :
         /\ cache_countItems(cache, ns) = cache_countItems(before.cache, ns)
         /\ \A k \in Keys : cache_get(cache, ns, k) = cache_get(before.cache, ns, k)

\* A reset of a namespace that held a value, another namespace holding one.
C13_Witness ==
  /\ cacheOps # <<>>
  /\ cacheOps[Len(cacheOps)].op = "reset"
  /\ cache_countItems(before.cache, cacheOps[Len(cacheOps)].bin) = 1
  /\ cache_countItems(cache, cacheOps[Len(cacheOps)].bin) = 0
  /\ \E ns \in Bins : cache_countItems(cache, ns) = 1

\* The paths whose load failed and those whose load returned in the last
\* call on moduleHandler.
FailedLoads == moduleCall.failed
SucceededLoads == moduleCall.loaded \ moduleCall.failed

\* C14: whenever load(path) returns, called as such or by get or init, the
\* handle the registry holds for path is of the build of the module on disk
\* at that time.
C14_LoadsLatestBuild ==
  \A path \in SucceededLoads :
    /\ Usable(modules[path])
    /\ modules[path].build = moduleCall.disk[path]

\* C15: a load of a path that cannot be read, or that exports no usable
\* value, raises an error to the caller; after a failed load the registry
\* holds no usable handle for the path; the registry never again holds, and
\* no get returns, a handle a failed load found in the registry.
C15_FailedLoadLeavesNoHandle ==
  /\ \A path \in moduleCall.loaded :
       (/\ moduleCall.requireCache[path] = Undefined \/ moduleCall.op = "init"
        /\ moduleCall.disk[path] \in {"missing", "falsy"})
       => path \in FailedLoads
  /\ \A path \in FailedLoads : ~Usable(modules[path])
  /\ \A d \in discarded : modules[d[1]] # d[2]
  /\ (moduleCall.op = "get" /\ moduleCall.err = "none")
       => <<moduleCall.path, moduleCall.ret>> \notin discarded

\* A get that loads a new handle after a load that failed with a handle in
\* the registry.
C15_Witness ==
  /\ moduleCall.op = "get" /\ moduleCall.err = "none"
  /\ moduleCall.path \in moduleCall.loaded
  /\ \E d \in discarded : d[1] = moduleCall.path

\* C16: get of a path the registry holds a usable handle for returns that
\* handle and loads nothing; get of a path it holds none for calls load on
\* that path; a get returns the handle the get before it returned when no
\* load or remove of the path came in between.
C16_GetCachedOrLoad ==
  moduleCall.op = "get" =>
    LET path == moduleCall.path
    IN /\ Usable(moduleCall.modules[path]) =>
            /\ moduleCall.loaded = {}
            /\ moduleCall.err = "none"
            /\ moduleCall.ret = moduleCall.modules[path]
       /\ ~Usable(moduleCall.modules[path]) => moduleCall.loaded = {path}
       /\ Usable(moduleCall.got[path]) =>
            moduleCall.err = "none" /\ moduleCall.ret = moduleCall.got[path]

\* A second get of a module that was rebuilt after the first: the handle of
\* the first get is returned.
C16_Witness ==
  /\ moduleCall.op = "get"
  /\ Usable(moduleCall.got[moduleCall.path])
  /\ moduleCall.ret.build # moduleCall.disk[moduleCall.path]
  /\ \E path \in Paths : ~Usable(modules[path]) /\ pathCache = Paths

\* The references the Document declares, in declaration order.
Declared ==
  [i \in 1..Len(includes) |-> CHOOSE r \in Refs : IncludePath(r) = includes[i]]
StaticKinds == {"config", "entity", "custom", "locale"}
OfKind(kinds) == SelectSeq(Declared, LAMBDA r : r.kind \in kinds)

\* C17: a dynamic pass on a Document calls the query runner once for each
\* declared reference whose key ends in "queryinclude" in any letter case,
\* in declaration order, with the string before "?" as queryId and the
\* parameters of the query string as queryArgs (a sequence of the values
\* for a repeated parameter, the value for a single one, the empty mapping
\* without query string); it mounts each result by the alias-without-type
\* strategy with type "query"; it calls the runner for no other reference.
C17_QueryIncludes ==
  passes = <<"dynamic">> =>
    LET queries == OfKind({"query"})
    IN /\ passErr = "none"
       /\ runs = [i \in 1..Len(queries) |->
                    [queryId |-> queries[i].queryId, queryArgs |-> queries[i].queryArgs]]
       /\ mounts = [i \in 1..Len(queries) |->
                      [strategy |-> "aliasWithoutType", type |-> "query",
                       mountPointPath |-> queries[i].mountPointPath,
                       includeKey |-> queries[i].includeKey,
                       includeData |-> queryRunner_run(queries[i].queryId,
                                                       queries[i].queryArgs)]]

\* A dynamic pass on a Document with a query reference that repeats a
\* parameter and a reference that is no query.
C17_Witness ==
  /\ passes = <<"dynamic">>
  /\ Len(includes) = 2 /\ Len(runs) = 1
  /\ runs[1].queryId = <<"rel">>
  /\ runs[1].queryArgs[<<"tag">>].k = "arr"
  /\ EntityMount \o << <<"query">> >> \in DOMAIN fileContent

\* C18: a static pass on a Document calls, for each declared reference whose
\* key ends in "configinclude", "entityinclude", "custominclude" or
\* "localeinclude" in any letter case, the strategy of that ending and no
\* other, in declaration order, whatever the Store lookup yields; it calls
\* no strategy for any other reference, and a Document with no such
\* reference is left as it was.
C18_StaticRouting ==
  passes = <<"static">> =>
    LET routed == OfKind(StaticKinds)
    IN /\ passErr = "none"
       /\ runs = <<>>
       /\ Len(mounts) = Len(routed)
       /\ \A i \in 1..Len(routed) :
            /\ mounts[i].strategy = routed[i].kind
            /\ mounts[i].mountPointPath = routed[i].mountPointPath
            /\ mounts[i].includeKey = routed[i].includeKey
       /\ routed = <<>> => fileContent = DocumentWith(Declared)

\* A static pass that ran a strategy for a reference the Store has nothing
\* for, and none for the other declared reference.
C18_Witness ==
  /\ passes = <<"static">>
  /\ Len(includes) = 2 /\ Len(mounts) = 1
  /\ mounts[1].strategy = "locale"
  /\ mounts[1].includeData = UndefinedValue
  /\ fileContent # DocumentWith(Declared)

\* C19: after a static pass whose last declared reference is an entity
\* include, the mount point of that reference is the data.content of the
\* data the Store lookup gave the strategy, the include key being gone, and
\* it is undefined when the lookup gave nothing or data without data.content.
C19_EntityMount ==
  (/\ passes = <<"static">> /\ includes # <<>>
   /\ Declared[Len(includes)].kind = "entity")
  => LET r == Declared[Len(includes)]
         includeData == mounts[Len(mounts)].includeData
         content == << <<"data">>, <<"content">> >>
     IN /\ mounts[Len(mounts)].strategy = "entity"
        /\ mounts[Len(mounts)].mountPointPath = r.mountPointPath
        /\ Append(r.mountPointPath, r.includeKey) \notin DOMAIN fileContent
        /\ IF content \in DOMAIN includeData
           THEN /\ r.mountPointPath \in DOMAIN fileContent
                /\ SubTree(fileContent, r.mountPointPath) = SubTree(includeData, content)
           ELSE r.mountPointPath \notin DOMAIN fileContent

\* A static pass that mounted the content of the included Document at the
\* mount point of an entity include.
C19_Witness ==
  /\ passes = <<"static">> /\ Len(includes) = 2
  /\ Declared[2].kind = "entity"
  /\ SubTree(fileContent, EntityMount) = EntityContent
  /\ AuthorMount \in DOMAIN fileContent

\* A pass by its name, on the pass record D.
RunPass(pass, D) ==
  IF pass = "static" THEN static_run(D, includes) ELSE dynamic_run(D, includes)

\* C20: the Document and the outcome after the static and then the dynamic
\* pass, or the dynamic and then the static pass, are what the two passes
\* make of the Document in the other order.
C20_OrderInsensitive ==
  (Len(passes) = 2 /\ passes[1] # passes[2]) =>
    LET D0 == [doc |-> DocumentWith(Declared), mounts |-> <<>>, runs |-> <<>>,
               err |-> "none"]
        first == RunPass(passes[2], D0)
        second == RunPass(passes[1], [first EXCEPT !.mounts = <<>>, !.runs = <<>>])
    IN /\ fileContent = second.doc
       /\ (passErr = "none") <=> (first.err = "none" /\ second.err = "none")

----------------------------------------------------------------------------
\* The calls the last call made on one hook, whether the post-processor
\* exposes a hook, and the Document file contents make at file.
HookCallsOf(hook) == SelectSeq(hookCalls, LAMBDA c : c.hook = hook)
Exposes(hook) == postProcessor # Null /\ postProcessor[hook]
ContentsDocument(file, c) ==
  Leaf(IF c.json # Null THEN [c.json EXCEPT !.fn = file] ELSE c.raw)

\* The Document at file in T is an entry of the Index of every level on its
\* path: of main, or of its variant group.
Indexed(T, file) ==
  \A i \in 0..(Len(file) - 1) :
    LET L == SubSeq(file, 1, i)
        v == getVariantName(file)
        p == IF v = "null" THEN MainOf(L) ELSE GroupOf(L, v)
    IN \E k \in 1..Len(Items(T, p)) : Items(T, p)[k] = T[file]

\* C21: within one add call on the live tree, for a non-empty path without
\* reserved segment: processFile is called exactly when the post-processor
\* exposes it, first, on the tree as the call found it (nothing inserted
\* yet), and what it returned is the Document the call leaves at the path;
\* storeAdd is called when exposed, last, given the same contents, on a
\* tree that holds the Document at the path and in the Index of every
\* level on the path; and add raises the failure exactly when storeAdd threw.
C21_HookOrder ==
  (last.op = "add" /\ ~last.useStage /\ last.file # EmptyFile /\ ~IsReserved(last.file))
  => LET pf == HookCallsOf("processFile")
         sa == HookCallsOf("storeAdd")
         inserted == IF pf # <<>>
                     THEN ContentsDocument(last.file, pf[1].contents)
                     ELSE DocumentOf(last.file, last.src)
     IN /\ Len(pf) = (IF Exposes("processFile") THEN 1 ELSE 0)
        /\ Len(sa) = (IF Exposes("storeAdd") /\ err \in {"none", "HookError"} THEN 1 ELSE 0)
        /\ pf # <<>> =>
             /\ hookCalls[1] = pf[1]
             /\ pf[1].tree = before.data
             /\ err \in {"none", "HookError"} => get(data, last.file) = inserted
        /\ sa # <<>> =>
             /\ hookCalls[Len(hookCalls)] = sa[1]
             /\ sa[1].tree = data
             /\ ContentsDocument(last.file, sa[1].contents) = inserted
             /\ get(sa[1].tree, last.file) = inserted
             /\ sa[1].contents.json # Null => Indexed(sa[1].tree, last.file)
             /\ (sa[1].outcome = "throw") <=> (err = "HookError")
        /\ sa = <<>> => err # "HookError"

\* An add of en/a.json whose processFile turned raw text into a Document,
\* and whose storeAdd threw.
C21_Witness ==
  /\ last.op = "add" /\ last.file = <<"en", "a.json">> /\ last.src = "plain"
  /\ Len(hookCalls) = 2
  /\ hookCalls[1].hook = "processFile" /\ hookCalls[1].contents.json # Null
  /\ hookCalls[2].hook = "storeAdd" /\ hookCalls[2].outcome = "throw"
  /\ err = "HookError"
  /\ Indexed(data, last.file)

\* The directory segments of file are all in T, and no Index sequence on the
\* path of file holds an entry that comes from file.
DirectoriesExist(T, file) == ~MissingSegment(T, file)
InNoIndex(T, file) ==
  \A p \in SequencesOn(T, file) : Without(T[p].items, file) = T[p].items

\* C22: remove(P) of a non-empty path without reserved segment, whose
\* directory segments are all in the live tree and whose Document is in no
\* Index on its path, leaves every Index sequence on the path of P as it was.
C22_RemoveUnindexedKeepsIndices ==
  (/\ last.op = "remove" /\ last.file # EmptyFile /\ ~IsReserved(last.file)
   /\ DirectoriesExist(before.data, last.file)
   /\ InNoIndex(before.data, last.file))
  => \A p \in SequencesOn(before.data, last.file) :
       p \in DOMAIN data /\ data[p] = before.data[p]

\* The Index sequences of the live tree.
IndexSequences(T) == {p \in DOMAIN T : T[p].k = "arr"}

\* C23: no Index sequence of the live tree holds two entries with the same
\* provenance path, and every entry is the Document get returns for its
\* provenance path.
C23_IndexEntriesUnique ==
  \A p \in IndexSequences(data) :
    LET items == data[p].items
    IN /\ \A i, j \in 1..Len(items) : items[i].fn = items[j].fn => i = j
       /\ \A i \in 1..Len(items) : get(data, items[i].fn) = Leaf(items[i])

\* C24: remove(P) of a path that holds the reserved segment leaves the live
\* tree, its Indices included, as it was.
C24_ReservedRemoveRefused ==
  (last.op = "remove" /\ IsReserved(last.file)) => data = before.data
=============================================================================
